---- MODULE Spec2Model ----
(***************************************************************************)
(* Model of the two OCR HTTP services of the repository:                   *)
(*   - the transformer service (app/api/routes-deepseek.py) with its       *)
(*     engine adapter (app/core/engine.py), and                            *)
(*   - the classical service (app/api/routes-tesseract.py).                *)
(* A request is one invocation of a route handler.  Each service runs its  *)
(* handlers as coroutines on one asyncio event loop; the transformer       *)
(* service runs DeepSeekOCR.infer on worker threads (asyncio.to_thread).   *)
(***************************************************************************)
EXTENDS Naturals, Sequences, FiniteSets

\* Number of requests the environment submits (to either service).
MaxReq == 2

Requests == 1..MaxReq

VARIABLES
    svc,          \* svc[r]: the service request r was sent to, "none" before it arrives
    ep,           \* ep[r]: the route of request r
    kind,         \* kind[r]: what the submitted payload is (see InputKinds)
    lang,         \* lang[r]: the language code submitted (classical service)
    pc,           \* pc[r]: position of r's handler coroutine
    resp,         \* resp[r]: the HTTP response of r, NoResp while there is none
    cancelled,    \* cancelled[r]: the handler task of r was cancelled
    locked,       \* model_lock._locked
    waiters,      \* model_lock._waiters, in arrival order
    woken,        \* waiters whose future has been set by _wake_up_first
    th,           \* th[r]: state of the worker thread running model.infer for r
    engOut,        \* engOut[r]: how the engine call made for r ended: "none", "ok" or error text
    scratch,      \* scratch[r]: the NamedTemporaryFile staged for r exists on disk
    tmpdir,       \* tmpdir[r]: the TemporaryDirectory of r's infer call exists on disk
    purges,       \* purges[r]: torch.cuda.empty_cache() calls made by r's infer call
    engineCalls,  \* engineCalls[r]: engine invocations made for r
    engLang,      \* engLang[r]: the lang= argument given to pytesseract for r
    tLoop         \* the request whose handler occupies the classical service's event loop, 0 if none

vars == <<svc, ep, kind, lang, pc, resp, cancelled, locked, waiters, woken,
          th, engOut, scratch, tmpdir, purges, engineCalls, engLang, tLoop>>

lockVars == <<locked, waiters, woken>>
threadVars == <<th, engOut, tmpdir, purges>>
inputVars == <<svc, ep, kind, lang>>

-----------------------------------------------------------------------------
(* Inputs *)

OcrEndpoints == {"ocr", "ocr_base64", "ocr_base64_json"}
Endpoints == {"root"} \cup OcrEndpoints

\* The members of the Language enumeration (app/api/schemas.py), by value.
AllowedLangs == {"fas", "eng"}

\* Language(value).name
LanguageName(l) == IF l = "eng" THEN "English" ELSE "Farsi"

\* Language codes a JSON body may carry: the enumeration's and one that is not.
LangInputs == AllowedLangs \cup {"xx"}

\* Lexicographic order of the language codes, as sorted() compares str values.
LexRank(l) == IF l = "eng" THEN 1 ELSE IF l = "fas" THEN 2 ELSE 3

\* sorted(S) for a set of language codes.
RECURSIVE sorted(_)
sorted(S) ==
    IF S = {} THEN <<>>
    ELSE LET m == CHOOSE x \in S : \A y \in S : LexRank(x) <= LexRank(y)
         IN  <<m>> \o sorted(S \ {m})

\* What a submitted payload can be:
\*   "bad_base64"   base64.b64decode raises
\*   "unidentified" Image.open raises UnidentifiedImageError
\*   "corrupt"      Image.open succeeds (header recognised), the data is truncated or corrupt
\*   "valid"        a decodable image
InputKinds(e) ==
    IF e = "ocr" THEN {"unidentified", "corrupt", "valid"}
    ELSE {"bad_base64", "unidentified", "corrupt", "valid"}

\* The default of the form field "language": Form(Language.Farsi).
DefaultLang == "fas"

\* Languages a request on route e reaches the handler with: the form routes
\* are submitted with the field left to its default, a JSON body carries any
\* string.
InputLangs(s, e) ==
    IF s = "deepseek" THEN {""}
    ELSE IF e = "ocr_base64_json" THEN LangInputs ELSE {DefaultLang}

\* Error texts raised by the engines.
EngineErrors == {"engine failure"}
B64Error == "Incorrect padding"
OpenError == "cannot identify image file"
VerifyError == "broken data stream"
ResultMissing == "No such file: result.mmd"

-----------------------------------------------------------------------------
(* Responses *)

Resp(st, msg, err, l, al, txt) ==
    [status |-> st, message |-> msg, error |-> err, language |-> l,
     allowed |-> al, extracted_text |-> txt]

NoResp == Resp(0, "", "", "", <<>>, "")

HealthResponse(s) ==
    Resp(200, IF s = "deepseek" THEN "DeepSeek OCR Service is running!"
              ELSE "Tesseract OCR Service is running!", "", "", <<>>, "")

InvalidImageResponse == Resp(400, "Invalid image file", "", "", <<>>, "")

ProcessingErrorResponse(msg, e) == Resp(400, msg, e, "", <<>>, "")

\* Faulty variant: the engine's failure reported as a client error.
EngineErrorResponseWrongStatus(e) == Resp(400, "Error during OCR", e, "", <<>>, "")

EngineErrorResponse(e) == Resp(500, "Error during OCR", e, "", <<>>, "")

UnsupportedLanguageResponse(l) == Resp(422, "", "", l, sorted(AllowedLangs), "")

DeepOkResponse(txt) == Resp(200, "", "", "", <<>>, txt)

TessOkResponse(l, txt) == Resp(200, "", "", LanguageName(l), <<>>, txt)

-----------------------------------------------------------------------------
(* Initial state: both services have started, no request has arrived. *)

Init ==
    /\ svc = [r \in Requests |-> "none"]
    /\ ep = [r \in Requests |-> "none"]
    /\ kind = [r \in Requests |-> "none"]
    /\ lang = [r \in Requests |-> ""]
    /\ pc = [r \in Requests |-> "idle"]
    /\ resp = [r \in Requests |-> NoResp]
    /\ cancelled = [r \in Requests |-> FALSE]
    /\ locked = FALSE
    /\ waiters = <<>>
    /\ woken = {}
    /\ th = [r \in Requests |-> "none"]
    /\ engOut = [r \in Requests |-> "none"]
    /\ scratch = [r \in Requests |-> FALSE]
    /\ tmpdir = [r \in Requests |-> FALSE]
    /\ purges = [r \in Requests |-> 0]
    /\ engineCalls = [r \in Requests |-> 0]
    /\ engLang = [r \in Requests |-> ""]
    /\ tLoop = 0

\* Requests are numbered in the order they arrive.
MayArrive(r) == pc[r] = "idle" /\ \A q \in Requests : q < r => pc[q] # "idle"

Remove(s, x) == SelectSeq(s, LAMBDA y : y # x)

-----------------------------------------------------------------------------
(* model_lock = asyncio.Lock(): a FIFO lock on the event loop *)

\* Lock.acquire() takes the lock without suspending only when it is free and
\* nobody is queued for it.
CanAcquireNow == ~locked /\ waiters = <<>>

\* Lock._wake_up_first(): the future of the first waiter is set.
WakeUpFirst(ws) == IF ws = <<>> THEN {} ELSE {Head(ws)}

\* Faulty variant: acquire()/release() around the call with no try/finally.
ReleasesGateOnSuccessOnly(out) == out = "ok"

\* "async with model_lock" releases the lock when its body is left, by return
\* or by exception.
ReleasesGate(out) == TRUE

-----------------------------------------------------------------------------
(* Transformer service: routes-deepseek.py *)

\* The try block that decodes and verifies the payload: the 400 response it
\* raises, or NoResp when the payload passes.
DeepSniff(k) ==
    IF k = "bad_base64" THEN
        ProcessingErrorResponse("Could not process the uploaded file.", B64Error)
    ELSE IF k = "unidentified" THEN InvalidImageResponse
    ELSE IF k = "corrupt" THEN
        ProcessingErrorResponse("Could not process the uploaded file.", VerifyError)
    ELSE NoResp

\* The body of an OCR handler from the validation of the payload k up to its
\* first suspension inside "async with model_lock": the 400 response, or the
\* staging of the scratch file and then either the acquisition of the lock
\* and the submission of model.infer to a worker thread, or the enqueueing
\* in the lock's waiters.
DeepRun(r, k) ==
    IF DeepSniff(k) # NoResp
    THEN /\ resp' = [resp EXCEPT ![r] = DeepSniff(k)]
         /\ pc' = [pc EXCEPT ![r] = "done"]
         /\ UNCHANGED <<lockVars, th, scratch>>
    ELSE /\ scratch' = [scratch EXCEPT ![r] = TRUE]
         /\ UNCHANGED resp
         /\ IF CanAcquireNow
            THEN /\ locked' = TRUE
                 /\ th' = [th EXCEPT ![r] = "queued"]
                 /\ pc' = [pc EXCEPT ![r] = "awaiting"]
                 /\ UNCHANGED <<waiters, woken>>
            ELSE /\ waiters' = Append(waiters, r)
                 /\ pc' = [pc EXCEPT ![r] = "waiting"]
                 /\ UNCHANGED <<locked, woken, th>>

\* A request reaches the transformer service and its handler runs to its
\* first suspension point: GET / is answered at once, perform_ocr suspends in
\* "await file.read()", the base64 handlers run on into DeepRun.
DeepArrive(r, e, k) ==
    /\ MayArrive(r)
    /\ e \in Endpoints
    /\ k \in (IF e = "root" THEN {"none"} ELSE InputKinds(e))
    /\ svc' = [svc EXCEPT ![r] = "deepseek"]
    /\ ep' = [ep EXCEPT ![r] = e]
    /\ kind' = [kind EXCEPT ![r] = k]
    /\ IF e = "root"
       THEN /\ pc' = [pc EXCEPT ![r] = "done"]
            /\ resp' = [resp EXCEPT ![r] = HealthResponse("deepseek")]
            /\ UNCHANGED <<lockVars, th, scratch>>
       ELSE IF e = "ocr"
       THEN /\ pc' = [pc EXCEPT ![r] = "reading"]
            /\ UNCHANGED <<resp, lockVars, th, scratch>>
       ELSE DeepRun(r, k)
    /\ UNCHANGED <<lang, cancelled, engOut, tmpdir, purges, engineCalls,
                   engLang, tLoop>>

\* perform_ocr resumes after "await file.read()".
DeepValidate(r) ==
    /\ svc[r] = "deepseek"
    /\ pc[r] = "reading"
    /\ DeepRun(r, kind[r])
    /\ UNCHANGED <<inputVars, cancelled, engOut, tmpdir, purges, engineCalls,
                   engLang, tLoop>>

\* A woken waiter resumes in Lock.acquire(): it leaves the queue, takes the
\* lock and submits model.infer to a worker thread.
DeepAcquire(r) ==
    /\ svc[r] = "deepseek"
    /\ pc[r] = "waiting"
    /\ r \in woken
    /\ waiters' = Remove(waiters, r)
    /\ woken' = woken \ {r}
    /\ locked' = TRUE
    /\ th' = [th EXCEPT ![r] = "queued"]
    /\ pc' = [pc EXCEPT ![r] = "awaiting"]
    /\ UNCHANGED <<inputVars, resp, cancelled, engOut, scratch, tmpdir,
                   purges, engineCalls, engLang, tLoop>>

\* The worker thread has finished and the handler resumes after
\* "await asyncio.to_thread(...)": the lock is released, an engine error
\* becomes the 500 response, the scratch file is closed (and so deleted), and
\* the result becomes the 200 response.
DeepResume(r) ==
    /\ svc[r] = "deepseek"
    /\ pc[r] = "awaiting"
    /\ th[r] = "done"
    /\ IF ReleasesGate(engOut[r])
       THEN /\ locked' = FALSE
            /\ woken' = woken \cup WakeUpFirst(waiters)
       ELSE UNCHANGED <<locked, woken>>
    /\ scratch' = [scratch EXCEPT ![r] = FALSE]
    /\ resp' = [resp EXCEPT ![r] =
                  IF engOut[r] = "ok" THEN DeepOkResponse("markdown")
                  ELSE EngineErrorResponse(engOut[r])]
    /\ pc' = [pc EXCEPT ![r] = "done"]
    /\ UNCHANGED <<inputVars, cancelled, waiters, threadVars,
                   engineCalls, engLang, tLoop>>

\* The handler task is cancelled at one of its suspension points:
\* "await file.read()" (perform_ocr), the wait for model_lock, or
\* "await asyncio.to_thread(...)".
\* CancelledError is no Exception: no except clause of the handler catches
\* it, the "async with" and "with" blocks it passes through are left.  A
\* worker thread that already runs model.infer cannot be cancelled and runs
\* on; a work item not yet started is dropped.
DeepCancel(r) ==
    /\ svc[r] = "deepseek"
    /\ pc[r] \in {"reading", "waiting", "awaiting"}
    /\ cancelled' = [cancelled EXCEPT ![r] = TRUE]
    /\ pc' = [pc EXCEPT ![r] = "done"]
    /\ scratch' = [scratch EXCEPT ![r] = FALSE]
    /\ CASE pc[r] = "reading" ->
              UNCHANGED <<locked, waiters, woken, th>>
         [] pc[r] = "waiting" ->
              /\ waiters' = Remove(waiters, r)
              /\ woken' = (woken \ {r}) \cup
                          (IF locked THEN {} ELSE WakeUpFirst(Remove(waiters, r)))
              /\ UNCHANGED <<locked, th>>
         [] pc[r] = "awaiting" ->
              /\ locked' = FALSE
              /\ woken' = woken \cup WakeUpFirst(waiters)
              /\ th' = [th EXCEPT ![r] = IF th[r] = "queued" THEN "none" ELSE th[r]]
              /\ UNCHANGED waiters
    /\ UNCHANGED <<inputVars, resp, engOut, tmpdir, purges, engineCalls,
                   engLang, tLoop>>

-----------------------------------------------------------------------------
(* Engine adapter: DeepSeekOCR.infer in core/engine.py, run on a worker thread *)

\* The calls of DeepSeekOCR.infer that have started and not yet returned or raised.
Executing == {r \in Requests : th[r] = "model"}

\* infer starts: empty_cache(), the TemporaryDirectory is created and
\* self.model.infer(...) is entered.
infer_Begin(r) ==
    /\ th[r] = "queued"
    /\ th' = [th EXCEPT ![r] = "model"]
    /\ purges' = [purges EXCEPT ![r] = @ + 1]
    /\ tmpdir' = [tmpdir EXCEPT ![r] = TRUE]
    /\ engineCalls' = [engineCalls EXCEPT ![r] = @ + 1]
    /\ UNCHANGED <<inputVars, pc, resp, cancelled, lockVars, engOut, scratch,
                   engLang, tLoop>>

\* self.model.infer(...) returns: empty_cache() again, result.mmd is read
\* (open raises when the model wrote none), the TemporaryDirectory is removed.
infer_ModelReturn(r, wrote) ==
    /\ th[r] = "model"
    /\ th' = [th EXCEPT ![r] = "done"]
    /\ purges' = [purges EXCEPT ![r] = @ + 1]
    /\ tmpdir' = [tmpdir EXCEPT ![r] = FALSE]
    /\ engOut' = [engOut EXCEPT ![r] = IF wrote THEN "ok" ELSE ResultMissing]
    /\ UNCHANGED <<inputVars, pc, resp, cancelled, lockVars, scratch,
                   engineCalls, engLang, tLoop>>

\* self.model.infer(...) raises: the TemporaryDirectory is removed and the
\* exception leaves infer.
infer_ModelRaise(r, e) ==
    /\ th[r] = "model"
    /\ th' = [th EXCEPT ![r] = "done"]
    /\ tmpdir' = [tmpdir EXCEPT ![r] = FALSE]
    /\ engOut' = [engOut EXCEPT ![r] = e]
    /\ UNCHANGED <<inputVars, pc, resp, cancelled, lockVars, scratch, purges,
                   engineCalls, engLang, tLoop>>

-----------------------------------------------------------------------------
(* Classical service: routes-tesseract.py.  Its handlers are coroutines that *)
(* call pytesseract.image_to_string directly, on the event loop.            *)

TessMessage(e) ==
    IF e = "ocr" THEN "Could not process the uploaded file."
    ELSE "Could not process the base64 string."

\* Faulty variant: the JSON route trusts the submitted language.
TessLanguageCheckSkipped(e, l) == NoResp

\* perform_ocr_base64_json: Language(ocr_language) raises for a value that is
\* no member of the enumeration, which becomes the 422 response.  The form
\* routes make no check of their own.
TessLanguageCheck(e, l) ==
    IF e = "ocr_base64_json" /\ l \notin AllowedLangs
    THEN UnsupportedLanguageResponse(l)
    ELSE NoResp

\* The try block that decodes the payload and opens it with Image.open (which
\* reads the header only): the 400 response it raises, or NoResp.
TessSniff(e, k) ==
    IF k = "bad_base64" THEN ProcessingErrorResponse(TessMessage(e), B64Error)
    ELSE IF k = "unidentified" THEN ProcessingErrorResponse(TessMessage(e), OpenError)
    ELSE NoResp

\* How pytesseract.image_to_string can end on an opened image: it has to
\* decode the pixel data, which fails on truncated or corrupt data.
RecognizeOutcomes(k) ==
    IF k = "corrupt" THEN {"image file is truncated"}
    ELSE {"ok"} \cup EngineErrors

\* The body of an OCR handler from its first statement after any
\* "await file.read()": the language check (JSON route), the decode and
\* Image.open, and then the call of pytesseract.image_to_string, which the
\* handler makes itself and which keeps the event loop until it ends.
TessRun(r, e, k, l) ==
    IF TessLanguageCheck(e, l) # NoResp
    THEN /\ resp' = [resp EXCEPT ![r] = TessLanguageCheck(e, l)]
         /\ pc' = [pc EXCEPT ![r] = "done"]
         /\ UNCHANGED <<engineCalls, engLang, tLoop>>
    ELSE IF TessSniff(e, k) # NoResp
    THEN /\ resp' = [resp EXCEPT ![r] = TessSniff(e, k)]
         /\ pc' = [pc EXCEPT ![r] = "done"]
         /\ UNCHANGED <<engineCalls, engLang, tLoop>>
    ELSE /\ pc' = [pc EXCEPT ![r] = "recognizing"]
         /\ engineCalls' = [engineCalls EXCEPT ![r] = @ + 1]
         /\ engLang' = [engLang EXCEPT ![r] = l]
         /\ tLoop' = r
         /\ UNCHANGED resp

\* A request reaches the classical service and its handler runs, on the event
\* loop, to its first suspension point: GET / is answered at once, perform_ocr
\* suspends in "await file.read()", the base64 handlers run on into TessRun.
TessArrive(r, e, k, l) ==
    /\ MayArrive(r)
    /\ tLoop = 0
    /\ e \in Endpoints
    /\ k \in (IF e = "root" THEN {"none"} ELSE InputKinds(e))
    /\ l \in (IF e = "root" THEN {""} ELSE InputLangs("tesseract", e))
    /\ svc' = [svc EXCEPT ![r] = "tesseract"]
    /\ ep' = [ep EXCEPT ![r] = e]
    /\ kind' = [kind EXCEPT ![r] = k]
    /\ lang' = [lang EXCEPT ![r] = l]
    /\ IF e = "root"
       THEN /\ pc' = [pc EXCEPT ![r] = "done"]
            /\ resp' = [resp EXCEPT ![r] = HealthResponse("tesseract")]
            /\ UNCHANGED <<engineCalls, engLang, tLoop>>
       ELSE IF e = "ocr"
       THEN /\ pc' = [pc EXCEPT ![r] = "reading"]
            /\ UNCHANGED <<resp, engineCalls, engLang, tLoop>>
       ELSE TessRun(r, e, k, l)
    /\ UNCHANGED <<cancelled, lockVars, threadVars, scratch>>

\* perform_ocr resumes after "await file.read()".
TessValidate(r) ==
    /\ svc[r] = "tesseract"
    /\ pc[r] = "reading"
    /\ tLoop = 0
    /\ TessRun(r, ep[r], kind[r], lang[r])
    /\ UNCHANGED <<inputVars, cancelled, lockVars, threadVars, scratch>>

\* pytesseract.image_to_string returns or raises; the handler builds the
\* response and gives the event loop back.
TessRecognizeEnd(r, out) ==
    /\ svc[r] = "tesseract"
    /\ pc[r] = "recognizing"
    /\ out \in RecognizeOutcomes(kind[r])
    /\ engOut' = [engOut EXCEPT ![r] = out]
    /\ resp' = [resp EXCEPT ![r] =
                  IF out = "ok" THEN TessOkResponse(lang[r], "text")
                  ELSE EngineErrorResponse(out)]
    /\ pc' = [pc EXCEPT ![r] = "done"]
    /\ tLoop' = 0
    /\ UNCHANGED <<inputVars, cancelled, lockVars, th, tmpdir, purges, scratch,
                   engineCalls, engLang>>

\* The handler task is cancelled at "await file.read()", the only suspension
\* point of the classical service's handlers.
TessCancel(r) ==
    /\ svc[r] = "tesseract"
    /\ pc[r] = "reading"
    /\ tLoop = 0
    /\ cancelled' = [cancelled EXCEPT ![r] = TRUE]
    /\ pc' = [pc EXCEPT ![r] = "done"]
    /\ UNCHANGED <<inputVars, resp, lockVars, threadVars, engOut, scratch,
                   engineCalls, engLang, tLoop>>

-----------------------------------------------------------------------------

\* The steps of the transformer service and of its worker threads.
NextDeep ==
    \/ \E r \in Requests, e \in Endpoints :
         \E k \in {"none", "bad_base64", "unidentified", "corrupt", "valid"} :
            DeepArrive(r, e, k)
    \/ \E r \in Requests : DeepValidate(r)
    \/ \E r \in Requests : DeepAcquire(r)
    \/ \E r \in Requests : DeepResume(r)
    \/ \E r \in Requests : DeepCancel(r)
    \/ \E r \in Requests : infer_Begin(r)
    \/ \E r \in Requests, wrote \in BOOLEAN : infer_ModelReturn(r, wrote)
    \/ \E r \in Requests, e \in EngineErrors : infer_ModelRaise(r, e)

\* The steps of the classical service.
NextTess ==
    \/ \E r \in Requests, e \in Endpoints :
         \E k \in {"none", "bad_base64", "unidentified", "corrupt", "valid"},
            l \in LangInputs \cup {""} :
            TessArrive(r, e, k, l)
    \/ \E r \in Requests : TessValidate(r)
    \/ \E r \in Requests, out \in {"ok", "image file is truncated"} \cup EngineErrors :
         TessRecognizeEnd(r, out)
    \/ \E r \in Requests : TessCancel(r)

Next == NextDeep \/ NextTess

\* Both services, each request sent to either.
Spec == Init /\ [][Next]_vars

\* The transformer service alone.
SpecDeep == Init /\ [][NextDeep]_vars

\* The scheduling the runtime guarantees: a runnable coroutine is resumed by
\* its event loop, a submitted work item is run by a worker thread, and a call
\* of self.model.infer ends, by returning or by raising.  Nothing obliges a
\* client to send a request or to abandon one.
Fairness ==
    \A r \in Requests :
        /\ WF_vars(DeepValidate(r))
        /\ WF_vars(DeepAcquire(r))
        /\ WF_vars(DeepResume(r))
        /\ WF_vars(infer_Begin(r))
        /\ WF_vars((\E wrote \in BOOLEAN : infer_ModelReturn(r, wrote))
                   \/ (\E e \in EngineErrors : infer_ModelRaise(r, e)))

FairSpecDeep == SpecDeep /\ Fairness

-----------------------------------------------------------------------------
(* Properties *)

TypeOK ==
    /\ svc \in [Requests -> {"none", "deepseek", "tesseract"}]
    /\ ep \in [Requests -> {"none"} \cup Endpoints]
    /\ pc \in [Requests -> {"idle", "reading", "waiting", "awaiting", "recognizing", "done"}]
    /\ th \in [Requests -> {"none", "queued", "model", "done"}]
    /\ locked \in BOOLEAN
    /\ woken \subseteq Requests
    /\ tLoop \in 0..MaxReq
    /\ \A r \in Requests : purges[r] \in 0..2 /\ engineCalls[r] \in 0..1

\* The request was answered: its handler ran to its end and was not cancelled.
Answered(r) == pc[r] = "done" /\ ~cancelled[r]

\* The engine call made for r raised.
EngineRaised(r) == engOut[r] \notin {"none", "ok"}

\* Payloads that are byte buffers but no decodable image.
Undecodable == {"unidentified", "corrupt"}

\* C1: in the transformer service at most one call of the engine's infer is
\* executing at any time.
C1_MutualExclusion == Cardinality(Executing) <= 1

\* Lemma (C1, C5, C10): as long as its handler is not cancelled, an executing
\* inference holds the lock and its scratch file exists; and no two such
\* inferences execute at once.
GateHeldUnlessCancelled ==
    /\ \A r \in Executing :
          ~cancelled[r] => locked /\ pc[r] = "awaiting" /\ scratch[r]
    /\ Cardinality({r \in Executing : ~cancelled[r]}) <= 1

\* C2: after a request has finished, whatever its outcome, neither its
\* scratch image file nor its engine output directory remains.
C2_NoTempRemains ==
    \A r \in Requests : pc[r] = "done" => ~scratch[r] /\ ~tmpdir[r]

\* Lemma (C2): an answered request leaves no temporary file or directory, and
\* the classical service creates none.
NoTempAfterAnswer ==
    /\ \A r \in Requests : Answered(r) => ~scratch[r] /\ ~tmpdir[r]
    /\ \A r \in Requests : svc[r] = "tesseract" => ~scratch[r] /\ ~tmpdir[r]

\* C3: in both services a byte buffer that is no decodable image is answered
\* with 400, and the engine is not invoked for it.
C3_UndecodableIs400 ==
    \A r \in Requests :
        kind[r] \in Undecodable =>
            /\ engineCalls[r] = 0
            /\ Answered(r) => resp[r].status = 400

\* Lemma (C3): the transformer service does answer such a buffer with 400
\* before any engine call.
DeepUndecodableIs400 ==
    \A r \in Requests :
        svc[r] = "deepseek" /\ kind[r] \in Undecodable =>
            /\ engineCalls[r] = 0
            /\ Answered(r) => resp[r].status = 400

\* C4: a JSON request to the classical service whose language is not
\* supported is answered with 422 carrying the offending value and the
\* complete sorted list of allowed codes, whatever its base64_string is, and
\* without an engine call; and the engine is never called with a language
\* outside the supported set.
C4_UnsupportedLanguage422 ==
    /\ \A r \in Requests :
          (svc[r] = "tesseract" /\ ep[r] = "ocr_base64_json"
                /\ lang[r] \notin AllowedLangs) =>
              /\ pc[r] = "done"
              /\ resp[r].status = 422
              /\ resp[r].language = lang[r]
              /\ Len(resp[r].allowed) = Cardinality(AllowedLangs)
              /\ {resp[r].allowed[i] : i \in 1..Len(resp[r].allowed)} = AllowedLangs
              /\ \A i \in 1..(Len(resp[r].allowed) - 1) :
                    LexRank(resp[r].allowed[i]) < LexRank(resp[r].allowed[i + 1])
              /\ engineCalls[r] = 0
    /\ \A r \in Requests :
          (svc[r] = "tesseract" /\ engineCalls[r] > 0) => engLang[r] \in AllowedLangs

\* C4 witness: an unsupported language together with an invalid base64_string
\* has been answered with 422.
C4_Witness ==
    \E r \in Requests :
        /\ svc[r] = "tesseract" /\ ep[r] = "ocr_base64_json"
        /\ lang[r] = "xx" /\ kind[r] = "bad_base64"
        /\ resp[r].status = 422

\* C5: while an inference is executing the gate is held by the request that
\* started it, also after that request's handler was cancelled.
C5_GateHeldWhileExecuting ==
    \A r \in Executing : locked /\ pc[r] = "awaiting"

\* C6: while a recognition call of the classical service is in progress,
\* another request can be accepted and a suspended handler can go on.
C6_RecognitionDoesNotStall ==
    \A r \in Requests :
        (svc[r] = "tesseract" /\ pc[r] = "recognizing") =>
            \A q \in Requests \ {r} :
                /\ MayArrive(q) => ENABLED TessArrive(q, "root", "none", "")
                /\ (svc[q] = "tesseract" /\ pc[q] = "reading") => ENABLED TessValidate(q)

\* Lemma (C6): the classical service never has two recognition calls in
\* progress.
OneRecognitionAtATime ==
    Cardinality({r \in Requests : pc[r] = "recognizing"}) <= 1

C8_EveryEngineFailureIs500 ==
    \A r \in Requests :
        /\ engineCalls[r] <= 1
        /\ (EngineRaised(r) /\ pc[r] = "done") =>
              /\ resp[r].status = 500
              /\ resp[r].message = "Error during OCR"
              /\ resp[r].error = engOut[r]
        /\ resp[r].status \in {200, 400} => ~EngineRaised(r)

\* C8 as amended: the engine is invoked at most once per request, and a
\* request whose engine call raised and whose handler was not cancelled ends
\* with 500, message "Error during OCR" and the error's text, never with 200
\* or 400.
C8_EngineFailureIs500 ==
    \A r \in Requests :
        /\ engineCalls[r] <= 1
        /\ (EngineRaised(r) /\ Answered(r)) =>
              /\ resp[r].status = 500
              /\ resp[r].message = "Error during OCR"
              /\ resp[r].error = engOut[r]
        /\ resp[r].status \in {200, 400} => ~EngineRaised(r)

\* C8 witness: in each service an engine call raised and was answered.
C8_Witness ==
    /\ \E r \in Requests :
          svc[r] = "deepseek" /\ Answered(r) /\ engOut[r] \in EngineErrors
    /\ \E r \in Requests :
          svc[r] = "tesseract" /\ Answered(r) /\ engOut[r] \in EngineErrors

\* C9: a call of infer has purged the accelerator cache once while the model
\* inference runs, and twice when it has ended, by return or by exception.
C9_PurgeBeforeAndAfter ==
    \A r \in Requests :
        /\ th[r] = "model" => purges[r] = 1
        /\ th[r] = "done" => purges[r] = 2

\* Lemma (C9): the second purge is made exactly when self.model.infer returned.
PurgeAfterReturnOnly ==
    \A r \in Requests :
        /\ th[r] = "model" => purges[r] = 1
        /\ th[r] = "done" =>
              purges[r] = (IF engOut[r] \in EngineErrors THEN 1 ELSE 2)

\* C10: the scratch file of a request exists as long as the inference
\* reading it executes.
C10_ScratchOutlivesInference ==
    \A r \in Executing : scratch[r]

====
